---- MODULE Spec2Model ----
(***************************************************************************)
(* A model of huggable.py: the command line tool that asks a hosted model  *)
(* for a web page, cleans the response, stores it under generated_apps/    *)
(* and optionally serves it on a local HTTP listener.                      *)
(*                                                                         *)
(* Text is a sequence of one-character strings, so that find, rfind,       *)
(* slicing, strip and startswith are computed character by character as    *)
(* Python computes them.                                                   *)
(***************************************************************************)
EXTENDS Integers, Sequences, FiniteSets, TLC

(***************************************************************************)
(* Bounds of the model.                                                    *)
(***************************************************************************)
\* longest response of the stubbed generation client, in pieces (SpecSan)
MaxPieces == 4
\* invocations of the program in one behaviour (Spec)
MaxRuns == 2
\* longest prefix a write that is cut short leaves in the entry file
MaxCut == 1

(***************************************************************************)
(* Python string primitives.                                               *)
(***************************************************************************)
Min(a, b) == IF a < b THEN a ELSE b

Max(a, b) == IF a > b THEN a ELSE b

\* str.strip() with no argument removes whitespace characters
IsSpace(c) == c \in {" ", "\t", "\n", "\r", "\f"}

RECURSIVE LStrip(_)
LStrip(s) == IF s = <<>> \/ ~IsSpace(Head(s)) THEN s ELSE LStrip(Tail(s))

RECURSIVE RStrip(_)
RStrip(s) ==
  IF s = <<>> \/ ~IsSpace(s[Len(s)]) THEN s ELSE RStrip(SubSeq(s, 1, Len(s) - 1))

Strip(s) == RStrip(LStrip(s))

\* s[i : i + len(sub)] == sub, i counted from 0
MatchAt(s, sub, i) ==
  /\ i >= 0
  /\ i + Len(sub) <= Len(s)
  /\ SubSeq(s, i + 1, i + Len(sub)) = sub

\* str.find scanning upwards from index i: lowest match, or -1
RECURSIVE FindFrom(_, _, _)
FindFrom(s, sub, i) ==
  IF i + Len(sub) > Len(s) THEN -1
  ELSE IF MatchAt(s, sub, i) THEN i
  ELSE FindFrom(s, sub, i + 1)

Find(s, sub) == FindFrom(s, sub, 0)

\* str.rfind scanning downwards from index i: highest match, or -1
RECURSIVE RFindFrom(_, _, _)
RFindFrom(s, sub, i) ==
  IF i < 0 THEN -1
  ELSE IF MatchAt(s, sub, i) THEN i
  ELSE RFindFrom(s, sub, i - 1)

RFind(s, sub) == RFindFrom(s, sub, Len(s) - Len(sub))

\* sub in s
Contains(s, sub) == Find(s, sub) # -1

StartsWith(s, p) == Len(s) >= Len(p) /\ SubSeq(s, 1, Len(p)) = p

\* a slice index brought into 0..len, negative indexes counted from the end
SliceIndex(s, i) == IF i < 0 THEN Max(i + Len(s), 0) ELSE Min(i, Len(s))

\* s[a:b]
Slice(s, a, b) == SubSeq(s, SliceIndex(s, a) + 1, SliceIndex(s, b))

(***************************************************************************)
(* The literals of clean_html_response.                                    *)
(***************************************************************************)
\* the backtick, which a TLA+ string literal cannot hold
BT == "bt"

FENCE == <<BT, BT, BT>>

HTML_FENCE == FENCE \o <<"h", "t", "m", "l">>

DOCTYPE == <<"<", "!", "D", "O", "C", "T", "Y", "P", "E", " ", "h", "t", "m", "l", ">">>

DOCTYPE_LINE == DOCTYPE \o <<"\n">>

HTML_TAG == <<"<", "h", "t", "m", "l">>

(***************************************************************************)
(* clean_html_response                                                     *)
(***************************************************************************)
FenceEndNearest(response) ==
  LET opener == IF Contains(response, HTML_FENCE) THEN HTML_FENCE ELSE FENCE
      start == Find(response, opener) + Len(opener)
  IN FindFrom(response, FENCE, start)

\* end = response.rfind(FENCE)
FenceEnd(response) == RFind(response, FENCE)

\* the two fence branches; without a marker the text is left as it is
ExtractFenced(response) ==
  IF Contains(response, HTML_FENCE)
  THEN Strip(Slice(response, Find(response, HTML_FENCE) + 7, FenceEnd(response)))
  ELSE IF Contains(response, FENCE)
  THEN Strip(Slice(response, Find(response, FENCE) + 3, FenceEnd(response)))
  ELSE response

HasDocStartTagOnly(response) == StartsWith(Strip(response), HTML_TAG)

\* response.strip() starts with the declaration or with the root tag
HasDocStart(response) ==
  \/ StartsWith(Strip(response), DOCTYPE)
  \/ StartsWith(Strip(response), HTML_TAG)

EnsureDoctype(response) ==
  IF ~HasDocStart(response) THEN DOCTYPE_LINE \o response ELSE response

CleanResultUnstripped(response) == response

\* return response.strip()
CleanResult(response) == Strip(response)

clean_html_response(response) == CleanResult(EnsureDoctype(ExtractFenced(response)))

(***************************************************************************)
(* The command line, the environment and the files of generated_apps/.     *)
(* An optional value is a set with at most one element.                    *)
(***************************************************************************)
\* --api-key: absent, empty, or a key
ApiKeyFlags == {{}, {""}, {"sk"}}

\* ANTHROPIC_API_KEY: unset, empty, or a key
Environs == {{}, {""}, {"sk"}}

\* --name values: "A b", "a_b", "C"
Names == {<<"A", " ", "b">>, <<"a", "_", "b">>, <<"C">>}

\* --port: absent or given
PortFlags == {{}, {3000}}

Descriptions == {"A todo list"}

Styles == {""}

\* what the provider answers: a fenced page, bare markup, a root element
Responses ==
  { HTML_FENCE \o <<"\n">> \o HTML_TAG \o <<">">> \o <<"\n">> \o FENCE,
    <<"x">>,
    HTML_TAG \o <<">", "b">> }

\* default of --port
DefaultPort == 8080

\* default of run_server's port parameter
RunServerDefaultPort == 8080

Commands ==
  [apiKey : ApiKeyFlags, name : Names, description : Descriptions,
   style : Styles, noRun : BOOLEAN, port : PortFlags]

VARIABLES
  pc,        \* where the running invocation is; "exited" once it has ended
  runs,      \* invocations started so far
  argv,      \* the command line of the running invocation
  environ,   \* ANTHROPIC_API_KEY in its environment
  fs,        \* generated_apps/: whether it exists, its project directories, their index.html
  prompt,    \* create_app's prompt
  raw,       \* create_app's response
  work,      \* clean_html_response's local
  html,      \* create_app's html_content
  requests,  \* messages.create calls of this invocation
  server,    \* the HTTPServer of run_server, the working directory and the browser
  exitCode,  \* the exit status, -1 while running
  exc,       \* the exception raised in this invocation, "none" if none
  excAt,     \* the step that raised it
  trace,     \* the steps this invocation has completed, in order
  touched,   \* what this invocation created or changed under generated_apps/
  lastGood,  \* per project, the text of the last write that completed
  lastOpen   \* per project, the cleaned text of the last invocation that opened the entry file

vars ==
  <<pc, runs, argv, environ, fs, prompt, raw, work, html, requests, server,
    exitCode, exc, excAt, trace, touched, lastGood, lastOpen>>

\* generated_apps itself ("outdir"), a project directory or its index.html
Path(kind, dir) == [kind |-> kind, dir |-> dir]

NoServer == [state |-> "none", port |-> 0, cwd |-> <<>>, opened |-> 0]

NoFiles == [outDir |-> FALSE, dirs |-> {}, files |-> <<>>]

(***************************************************************************)
(* main: argument defaults                                                 *)
(***************************************************************************)
\* default=os.environ.get("ANTHROPIC_API_KEY")
ArgsApiKey == IF argv.apiKey # {} THEN argv.apiKey ELSE environ

ArgsPort == IF argv.port # {} THEN CHOOSE p \in argv.port : TRUE ELSE DefaultPort

KeyMissingNoneOnly == ArgsApiKey = {}

\* not args.api_key
KeyMissing == ArgsApiKey = {} \/ ArgsApiKey = {""}

AutoRunAlways == TRUE

\* auto_run=not args.no_run
AutoRun == ~argv.noRun

\* create_app calls run_server(app_path): the port parameter takes its default
CreateAppServerPort == RunServerDefaultPort

(***************************************************************************)
(* generate_prompt                                                         *)
(***************************************************************************)
generate_prompt(app_description, style_preferences) ==
  << "Create a complete, beautiful, and modern web application based on this description:",
     app_description,
     "Requirements:",
     "Style preferences:",
     IF style_preferences # "" THEN style_preferences ELSE "Modern, clean, and engaging",
     "Please provide ONLY the complete HTML code without any explanations or markdown formatting." >>

(***************************************************************************)
(* save_app                                                                *)
(***************************************************************************)
Lower(c) == CASE c = "A" -> "a" [] c = "B" -> "b" [] c = "C" -> "c" [] OTHER -> c

\* app_name.replace(" ", "_").lower()
Slug(app_name) ==
  [i \in 1..Len(app_name) |-> Lower(IF app_name[i] = " " THEN "_" ELSE app_name[i])]

MkdirFailsIfPresent == FALSE

\* app_dir.mkdir(exist_ok=True)
MkdirExistOk == TRUE

\* save_app(html_content, name)
SaveContent == html

\* f with index.html of project d holding text t
WithFile(f, d, t) == [x \in DOMAIN f \cup {d} |-> IF x = d THEN t ELSE f[x]]

(***************************************************************************)
(* Exceptions.  call_claude_api catches Exception and calls sys.exit(1);   *)
(* main catches KeyboardInterrupt (exit 0) and Exception (exit 1); a       *)
(* SystemExit passes both handlers and ends the process with its code.     *)
(***************************************************************************)
ApiCatchesAll(e) == TRUE

\* except Exception in call_claude_api
ApiCatches(e) == e \notin {"KeyboardInterrupt", "SystemExit"}

\* the exit status main ends with when e reaches its handlers
MainExit(e) ==
  CASE e = "KeyboardInterrupt" -> 0
    [] e = "SystemExit" -> 1
    [] OTHER -> 1

ApiRetriesOnce == 0 + 1

\* retries of messages.create after a failure: call_claude_api has no loop
ApiRetries == 0

(***************************************************************************)
(* One invocation of main, from the return of parse_args.                  *)
(***************************************************************************)
Step(s) == trace' = Append(trace, s)

\* the process ends with status c
Exit(c) == pc' = "exited" /\ exitCode' = c

\* exception e is raised by step pc
Raise(e) == exc' = e /\ excAt' = pc

ProjectDir == Slug(argv.name)

Init ==
  /\ pc = "check_key"
  /\ runs = 1
  /\ argv \in Commands
  /\ environ \in Environs
  /\ fs = NoFiles
  /\ prompt = <<>>
  /\ raw = <<>>
  /\ work = <<>>
  /\ html = <<>>
  /\ requests = 0
  /\ server = NoServer
  /\ exitCode = -1
  /\ exc = "none"
  /\ excAt = "none"
  /\ trace = <<>>
  /\ touched = {}
  /\ lastGood = <<>>
  /\ lastOpen = <<>>

\* the program is run again, in the same directory
Invoke ==
  /\ pc = "exited"
  /\ runs < MaxRuns
  /\ pc' = "check_key"
  /\ runs' = runs + 1
  /\ argv' \in Commands
  /\ environ' \in Environs
  /\ prompt' = <<>>
  /\ raw' = <<>>
  /\ work' = <<>>
  /\ html' = <<>>
  /\ requests' = 0
  /\ server' = NoServer
  /\ exitCode' = -1
  /\ exc' = "none"
  /\ excAt' = "none"
  /\ trace' = <<>>
  /\ touched' = {}
  /\ UNCHANGED <<fs, lastGood, lastOpen>>

\* if not args.api_key: sys.exit(1)
CheckApiKey ==
  /\ pc = "check_key"
  /\ IF KeyMissing THEN Exit(1) ELSE pc' = "init" /\ exitCode' = exitCode
  /\ UNCHANGED <<runs, argv, environ, fs, prompt, raw, work, html, requests,
                 server, exc, excAt, trace, touched, lastGood, lastOpen>>

\* Huggable.__init__: self.output_dir.mkdir(exist_ok=True)
HuggableInit ==
  /\ pc = "init"
  /\ fs' = [fs EXCEPT !.outDir = TRUE]
  /\ touched' = IF fs.outDir THEN touched ELSE touched \cup {Path("outdir", <<>>)}
  /\ Step("init")
  /\ pc' = "prompt"
  /\ UNCHANGED <<runs, argv, environ, prompt, raw, work, html, requests,
                 server, exitCode, exc, excAt, lastGood, lastOpen>>

\* the mkdir of __init__ fails: the error is raised before main's try
HuggableInitFail ==
  /\ pc = "init"
  /\ Raise("OSError")
  /\ Exit(1)
  /\ UNCHANGED <<runs, argv, environ, fs, prompt, raw, work, html, requests,
                 server, trace, touched, lastGood, lastOpen>>

\* prompt = self.generate_prompt(description, style)
GeneratePrompt ==
  /\ pc = "prompt"
  /\ prompt' = generate_prompt(argv.description, argv.style)
  /\ Step("prompt")
  /\ pc' = "call_api"
  /\ UNCHANGED <<runs, argv, environ, fs, raw, work, html, requests, server,
                 exitCode, exc, excAt, touched, lastGood, lastOpen>>

\* call_claude_api: messages.create answers
CallApi ==
  /\ pc = "call_api"
  /\ \E r \in Responses : raw' = r
  /\ requests' = requests + 1
  /\ Step("request")
  /\ pc' = "clean_extract"
  /\ UNCHANGED <<runs, argv, environ, fs, prompt, work, html, server,
                 exitCode, exc, excAt, touched, lastGood, lastOpen>>

\* call_claude_api: messages.create, or content[0], raises an Exception
CallApiFail ==
  /\ pc = "call_api"
  /\ exc = "none" \/ exc = "APIError"
  /\ requests' = requests + 1
  /\ Step("request")
  /\ Raise("APIError")
  /\ IF ApiCatches("APIError")
     THEN IF requests < ApiRetries
          THEN pc' = "call_api" /\ exitCode' = exitCode
          ELSE Exit(MainExit("SystemExit"))
     ELSE Exit(MainExit("APIError"))
  /\ UNCHANGED <<runs, argv, environ, fs, prompt, raw, work, html, server,
                 touched, lastGood, lastOpen>>

\* the user interrupts while messages.create is waiting for the answer
CallApiInterrupt ==
  /\ pc = "call_api"
  /\ exc = "none"
  /\ requests' = requests + 1
  /\ Step("request")
  /\ Raise("KeyboardInterrupt")
  /\ IF ApiCatches("KeyboardInterrupt")
     THEN Exit(MainExit("SystemExit"))
     ELSE Exit(MainExit("KeyboardInterrupt"))
  /\ UNCHANGED <<runs, argv, environ, fs, prompt, raw, work, html, server,
                 touched, lastGood, lastOpen>>

\* clean_html_response: the fence branches
CleanExtract ==
  /\ pc = "clean_extract"
  /\ work' = ExtractFenced(raw)
  /\ pc' = "clean_doctype"
  /\ UNCHANGED <<runs, argv, environ, fs, prompt, raw, html, requests, server,
                 exitCode, exc, excAt, trace, touched, lastGood, lastOpen>>

\* clean_html_response: the declaration
CleanDoctype ==
  /\ pc = "clean_doctype"
  /\ work' = EnsureDoctype(work)
  /\ pc' = "clean_return"
  /\ UNCHANGED <<runs, argv, environ, fs, prompt, raw, html, requests, server,
                 exitCode, exc, excAt, trace, touched, lastGood, lastOpen>>

\* html_content = self.clean_html_response(response)
CleanReturn ==
  /\ pc = "clean_return"
  /\ html' = CleanResult(work)
  /\ Step("sanitize")
  /\ pc' = "mkdir"
  /\ UNCHANGED <<runs, argv, environ, fs, prompt, raw, work, requests, server,
                 exitCode, exc, excAt, touched, lastGood, lastOpen>>

\* save_app: app_dir.mkdir(exist_ok=True)
SaveMkdir ==
  /\ pc = "mkdir"
  /\ IF ProjectDir \in fs.dirs /\ ~MkdirExistOk
     THEN /\ Raise("FileExistsError")
          /\ Exit(MainExit("FileExistsError"))
          /\ UNCHANGED <<fs, touched, trace>>
     ELSE /\ fs' = [fs EXCEPT !.dirs = @ \cup {ProjectDir}]
          /\ touched' = IF ProjectDir \in fs.dirs
                       THEN touched
                       ELSE touched \cup {Path("appdir", ProjectDir)}
          /\ Step("mkdir")
          /\ pc' = "open"
          /\ UNCHANGED <<exitCode, exc, excAt>>
  /\ UNCHANGED <<runs, argv, environ, prompt, raw, work, html, requests, server,
                 lastGood, lastOpen>>

\* save_app: open(html_file, "w") creates the file or empties it
SaveOpen ==
  /\ pc = "open"
  /\ fs' = [fs EXCEPT !.files = WithFile(@, ProjectDir, <<>>)]
  /\ touched' = touched \cup {Path("file", ProjectDir)}
  /\ lastOpen' = WithFile(lastOpen, ProjectDir,
                          [text |-> clean_html_response(raw), done |-> FALSE])
  /\ Step("open")
  /\ pc' = "write"
  /\ UNCHANGED <<runs, argv, environ, prompt, raw, work, html, requests, server,
                 exitCode, exc, excAt, lastGood>>

\* save_app: f.write(html_content) and the close of the with block
SaveWrite ==
  /\ pc = "write"
  /\ fs' = [fs EXCEPT !.files = WithFile(@, ProjectDir, SaveContent)]
  /\ lastGood' = WithFile(lastGood, ProjectDir, clean_html_response(raw))
  /\ lastOpen' = [lastOpen EXCEPT ![ProjectDir].done = TRUE]
  /\ Step("save")
  /\ pc' = IF AutoRun THEN "chdir" ELSE "return"
  /\ UNCHANGED <<runs, argv, environ, prompt, raw, work, html, requests, server,
                 exitCode, exc, excAt, touched>>

\* the write is cut short by an error of the file system or by an interrupt:
\* a prefix of the text has reached the file
SaveWriteCut ==
  /\ pc = "write"
  /\ exc = "none"
  /\ \E e \in {"OSError", "KeyboardInterrupt"} :
       /\ Raise(e)
       /\ Exit(MainExit(e))
  /\ \E n \in 0..Min(MaxCut, Len(SaveContent)) :
       fs' = [fs EXCEPT !.files = WithFile(@, ProjectDir, SubSeq(SaveContent, 1, n))]
  /\ UNCHANGED <<runs, argv, environ, prompt, raw, work, html, requests, server,
                 trace, touched, lastGood, lastOpen>>

\* mkdir or open of save_app raises OSError
FsError ==
  /\ pc \in {"mkdir", "open"}
  /\ exc = "none"
  /\ Raise("OSError")
  /\ Exit(MainExit("OSError"))
  /\ UNCHANGED <<runs, argv, environ, fs, prompt, raw, work, html, requests,
                 server, trace, touched, lastGood, lastOpen>>

\* run_server: os.chdir(app_path.parent)
RunServerChdir ==
  /\ pc = "chdir"
  /\ server' = [server EXCEPT !.cwd = ProjectDir]
  /\ pc' = "bind"
  /\ UNCHANGED <<runs, argv, environ, fs, prompt, raw, work, html, requests,
                 exitCode, exc, excAt, trace, touched, lastGood, lastOpen>>

\* run_server: HTTPServer(('localhost', port), QuietHTTPRequestHandler)
RunServerBind ==
  /\ pc = "bind"
  /\ server' = [server EXCEPT !.state = "bound", !.port = CreateAppServerPort]
  /\ Step("bind")
  /\ pc' = "browser"
  /\ UNCHANGED <<runs, argv, environ, fs, prompt, raw, work, html, requests,
                 exitCode, exc, excAt, touched, lastGood, lastOpen>>

\* the port cannot be bound
BindError ==
  /\ pc = "bind"
  /\ exc = "none"
  /\ Raise("OSError")
  /\ Exit(MainExit("OSError"))
  /\ UNCHANGED <<runs, argv, environ, fs, prompt, raw, work, html, requests,
                 server, trace, touched, lastGood, lastOpen>>

\* run_server: webbrowser.open
OpenBrowser ==
  /\ pc = "browser"
  /\ server' = [server EXCEPT !.opened = server.port]
  /\ pc' = "serve"
  /\ UNCHANGED <<runs, argv, environ, fs, prompt, raw, work, html, requests,
                 exitCode, exc, excAt, trace, touched, lastGood, lastOpen>>

\* run_server: server.serve_forever() enters its loop
ServeForever ==
  /\ pc = "serve"
  /\ server.state = "bound"
  /\ server' = [server EXCEPT !.state = "serving"]
  /\ Step("serve")
  /\ UNCHANGED <<pc, runs, argv, environ, fs, prompt, raw, work, html, requests,
                 exitCode, exc, excAt, touched, lastGood, lastOpen>>

\* run_server: except KeyboardInterrupt: server.shutdown(); run_server and
\* create_app return
ServeInterrupt ==
  /\ pc = "serve"
  /\ exc = "none"
  /\ Raise("KeyboardInterrupt")
  /\ server' = [server EXCEPT !.state = "stopped"]
  /\ pc' = "return"
  /\ UNCHANGED <<runs, argv, environ, fs, prompt, raw, work, html, requests,
                 exitCode, trace, touched, lastGood, lastOpen>>

\* the steps of create_app, outside messages.create, the write and
\* serve_forever, that an interrupt can hit
InterruptSteps ==
  {"prompt", "clean_extract", "clean_doctype", "clean_return", "mkdir", "open",
   "chdir", "bind", "browser", "return"}

\* main: except KeyboardInterrupt: sys.exit(0)
Interrupt ==
  /\ pc \in InterruptSteps
  /\ exc = "none"
  /\ Raise("KeyboardInterrupt")
  /\ Exit(MainExit("KeyboardInterrupt"))
  /\ UNCHANGED <<runs, argv, environ, fs, prompt, raw, work, html, requests,
                 server, trace, touched, lastGood, lastOpen>>

\* create_app returns app_path; main prints the path under --no-run and ends
MainEnd ==
  /\ pc = "return"
  /\ Exit(0)
  /\ UNCHANGED <<runs, argv, environ, fs, prompt, raw, work, html, requests,
                 server, exc, excAt, trace, touched, lastGood, lastOpen>>

Next ==
  \/ Invoke
  \/ CheckApiKey
  \/ HuggableInit
  \/ HuggableInitFail
  \/ GeneratePrompt
  \/ CallApi
  \/ CallApiFail
  \/ CallApiInterrupt
  \/ CleanExtract
  \/ CleanDoctype
  \/ CleanReturn
  \/ SaveMkdir
  \/ SaveOpen
  \/ SaveWrite
  \/ SaveWriteCut
  \/ FsError
  \/ RunServerChdir
  \/ RunServerBind
  \/ BindError
  \/ OpenBrowser
  \/ ServeForever
  \/ ServeInterrupt
  \/ Interrupt
  \/ MainEnd

Spec == Init /\ [][Next]_vars

(***************************************************************************)
(* create_app from its line 135 on, with a stubbed generation client: the  *)
(* response is any text of at most MaxPieces pieces.                       *)
(***************************************************************************)
Pieces ==
  {FENCE, HTML_FENCE, <<BT>>, <<" ">>, <<"\n">>, HTML_TAG, DOCTYPE, <<"x">>}

RECURSIVE TextsUpTo(_)
TextsUpTo(n) ==
  IF n = 0 THEN {<<>>}
  ELSE LET T == TextsUpTo(n - 1) IN T \cup {t \o p : t \in T, p \in Pieces}

StubCommand ==
  [apiKey |-> {"sk"}, name |-> <<"A", " ", "b">>, description |-> "A todo list",
   style |-> "", noRun |-> TRUE, port |-> {}]

SanInit ==
  /\ pc = "clean_extract"
  /\ runs = 1
  /\ argv = StubCommand
  /\ environ = {}
  /\ fs = [outDir |-> TRUE, dirs |-> {}, files |-> <<>>]
  /\ prompt = generate_prompt(StubCommand.description, StubCommand.style)
  /\ raw \in TextsUpTo(MaxPieces)
  /\ work = <<>>
  /\ html = <<>>
  /\ requests = 1
  /\ server = NoServer
  /\ exitCode = -1
  /\ exc = "none"
  /\ excAt = "none"
  /\ trace = <<"init", "prompt", "request">>
  /\ touched = {Path("outdir", <<>>)}
  /\ lastGood = <<>>
  /\ lastOpen = <<>>

SanNext ==
  \/ CleanExtract
  \/ CleanDoctype
  \/ CleanReturn
  \/ SaveMkdir
  \/ SaveOpen
  \/ SaveWrite
  \/ MainEnd

SpecSan == SanInit /\ [][SanNext]_vars

(***************************************************************************)
(* Vocabulary of the properties.                                           *)
(***************************************************************************)
IsPrefix(a, b) == Len(a) <= Len(b) /\ SubSeq(b, 1, Len(a)) = a

InTrace(s) == \E i \in 1..Len(trace) : trace[i] = s

\* the positions, from 0, at which sub occurs in s
Occurrences(s, sub) == {i \in 0..Len(s) : MatchAt(s, sub, i)}

FirstAt(s, sub) ==
  CHOOSE i \in Occurrences(s, sub) : \A j \in Occurrences(s, sub) : i <= j

LastAt(s, sub) ==
  CHOOSE i \in Occurrences(s, sub) : \A j \in Occurrences(s, sub) : j <= i

\* the characters of s at positions a .. b-1, counted from 0
Between(s, a, b) == IF b > a THEN [k \in 1..(b - a) |-> s[a + k]] ELSE <<>>

\* neither --api-key nor the environment gives a non-empty key
NoKeyResolved == argv.apiKey \subseteq {""} /\ environ \subseteq {""}

\* html_content has been computed
Cleaned == pc \in {"mkdir", "open", "write", "chdir", "bind", "browser", "serve",
                   "return", "exited"} /\ InTrace("sanitize")

\* the slug of each name of Names, written out
ExpectedSlug(n) ==
  CASE n = <<"A", " ", "b">> -> <<"a", "_", "b">>
    [] n = <<"a", "_", "b">> -> <<"a", "_", "b">>
    [] n = <<"C">> -> <<"c">>

FilesTouched == {t \in touched : t.kind = "file"}

(***************************************************************************)
(* C1: whenever the preview server is started, its listener is bound on    *)
(* the port given by --port, and on 8080 only when the flag is absent.     *)
(***************************************************************************)
C1_BoundPortIsFlagPort ==
  server.state # "none" =>
    /\ \A p \in argv.port : server.port = p
    /\ argv.port = {} => server.port = 8080

(***************************************************************************)
(* C2: when no API key is resolved the process exits with status 1, and    *)
(* in that run no request is sent and nothing under generated_apps is      *)
(* created or modified.                                                    *)
(***************************************************************************)
C2_NoKeyNoEffects ==
  (NoKeyResolved /\ pc # "check_key") =>
    /\ pc = "exited"
    /\ exitCode = 1
    /\ requests = 0
    /\ touched = {}
    /\ trace = <<>>
    /\ server = NoServer

\* a second run without a key, beside the files of a first run
C2_Witness ==
  /\ NoKeyResolved
  /\ argv.apiKey = {""}
  /\ pc = "exited"
  /\ runs = 2
  /\ fs.files # <<>>

(***************************************************************************)
(* C3: the stages run in the order prompt, request, sanitize, save; the     *)
(* server is started only without --no-run and only after the              *)
(* entry file has been written; and under --no-run, once generation and    *)
(* saving have succeeded, the entry file holds the cleaned text, the       *)
(* server is never started and the process ends with status 0.             *)
(***************************************************************************)
IsStage(s) == s \in {"prompt", "request", "sanitize", "save", "bind"}

StagesInOrder ==
  IsPrefix(SelectSeq(trace, IsStage), <<"prompt", "request", "sanitize", "save", "bind">>)

ServerOnlyAfterSave ==
  server.state # "none" =>
    /\ ~argv.noRun
    /\ InTrace("save")
    /\ ExpectedSlug(argv.name) \in DOMAIN fs.files
    /\ fs.files[ExpectedSlug(argv.name)] = html

C4_ApiFailureIsFatal ==
  exc = "APIError" =>
    /\ pc = "exited"
    /\ exitCode = 1
    /\ requests = 1
    /\ trace = <<"init", "prompt", "request">>
    /\ work = <<>> /\ html = <<>>
    /\ \A t \in touched : t.kind = "outdir"
    /\ server = NoServer

C4_Witness == exc = "APIError" /\ pc = "exited" /\ exitCode = 1 /\ runs = 2

(***************************************************************************)
(* C5: a user interrupt is a non-error shutdown: during the generation     *)
(* request it ends the process with status 0, and during the accept loop   *)
(* it stops the loop, serve returns and the process ends with status 0.    *)
(***************************************************************************)
C5_InterruptIsCleanExit ==
  exc = "KeyboardInterrupt" =>
    /\ pc = "exited" => exitCode = 0
    /\ excAt = "call_api" => pc = "exited"
    /\ excAt = "serve" =>
         /\ server.state = "stopped"
         /\ pc \in {"return", "exited"}

C5_Witness ==
  /\ exc = "KeyboardInterrupt"
  /\ excAt = "serve"
  /\ server.state = "stopped"
  /\ pc = "exited"
  /\ exitCode = 0

(***************************************************************************)
(* C6: after any sequence of invocations each entry file holds the         *)
(* cleaned text of the last invocation that opened it, in full if that     *)
(* invocation's write completed and otherwise cut to a prefix of it; an    *)
(* invocation writes at most one entry file, that of its slug; and an      *)
(* existing project never makes a run fail.                                *)
(***************************************************************************)
C6_EntryFile ==
  /\ pc = "exited" =>
       \A d \in DOMAIN fs.files :
         /\ d \in DOMAIN lastOpen
         /\ IF lastOpen[d].done
            THEN fs.files[d] = lastOpen[d].text
            ELSE IsPrefix(fs.files[d], lastOpen[d].text)
  /\ Cardinality(FilesTouched) <= 1
  /\ \A t \in FilesTouched : t.dir = ExpectedSlug(argv.name)
  /\ (pc = "exited" /\ ~KeyMissing
        /\ exc \notin {"OSError", "APIError", "KeyboardInterrupt"}) =>
       /\ exitCode = 0
       /\ fs.files[ExpectedSlug(argv.name)] = clean_html_response(raw)

\* a second run under a name with the slug of the first, whose write completes
C6_Witness ==
  /\ pc = "exited"
  /\ runs = 2
  /\ argv.name = <<"A", " ", "b">>
  /\ exc = "none"
  /\ Path("file", <<"a", "_", "b">>) \in touched
  /\ Path("appdir", <<"a", "_", "b">>) \notin touched
  /\ fs.files[<<"a", "_", "b">>] = HTML_TAG \o <<">">>

\* C6 with no allowance for a write cut short: each entry file holds the
\* cleaned text of the last invocation whose write completed
C6_Original ==
  /\ pc = "exited" => \A d \in DOMAIN lastGood : fs.files[d] = lastGood[d]
  /\ Cardinality(FilesTouched) <= 1

(***************************************************************************)
(* C7: the fence branches take the text from just after the first opener   *)
(* (the html-tagged one if there is one, else the first marker) to just    *)
(* before the last marker; without a marker the text is left as it is.     *)
(***************************************************************************)
C7_FirstOpenLastClose ==
  pc = "clean_doctype" =>
    work = IF Occurrences(raw, HTML_FENCE) # {}
           THEN Strip(Between(raw, FirstAt(raw, HTML_FENCE) + 7, LastAt(raw, FENCE)))
           ELSE IF Occurrences(raw, FENCE) # {}
           THEN Strip(Between(raw, FirstAt(raw, FENCE) + 3, LastAt(raw, FENCE)))
           ELSE raw

\* the last marker is not the nearest one
C7_Witness ==
  /\ pc = "clean_doctype"
  /\ raw = HTML_FENCE \o <<"x">> \o FENCE \o FENCE
  /\ work = <<"x">> \o FENCE

(***************************************************************************)
(* C8: the text of the fence step is trimmed before the declaration step:  *)
(* the output is the trimmed text if that begins with the declaration or   *)
(* the root tag, and else the declaration line followed at once by the     *)
(* trimmed text.                                                           *)
(***************************************************************************)
C8_TrimBeforeDoctype ==
  Cleaned =>
    LET t == Strip(ExtractFenced(raw)) IN
      html = IF StartsWith(t, DOCTYPE) \/ StartsWith(t, HTML_TAG) THEN t
             ELSE IF t = <<>> THEN DOCTYPE
             ELSE DOCTYPE_LINE \o t

(***************************************************************************)
(* C9: cleaning a text without fence markers a second time changes         *)
(* nothing.                                                                *)
(***************************************************************************)
C9_Idempotent ==
  (Cleaned /\ Occurrences(raw, FENCE) = {}) => clean_html_response(html) = html

\* a text of white space only
C9_Witness ==
  /\ Cleaned
  /\ raw = <<" ", "\n">>
  /\ html = DOCTYPE
  /\ clean_html_response(html) = html

(***************************************************************************)
(* C10: with exactly one fence marker in the response the extracted text   *)
(* is empty, the cleaned text is the declaration alone, and that is what   *)
(* the entry file receives.                                                *)
(***************************************************************************)
C10_UnclosedFence ==
  Cardinality(Occurrences(raw, FENCE)) = 1 =>
    /\ pc = "clean_doctype" => work = <<>>
    /\ Cleaned => html = DOCTYPE
    /\ InTrace("save") => fs.files[ExpectedSlug(argv.name)] = DOCTYPE

C10_Witness ==
  /\ raw = HTML_FENCE \o HTML_TAG \o <<"x">>
  /\ pc = "exited"
  /\ fs.files[<<"a", "_", "b">>] = DOCTYPE

====
